---- MODULE Spec2Model ----
(***************************************************************************)
(* Order service of the pizza shop: src/app/api/v1/endpoints/order/crud.py *)
(*                                                                         *)
(* The relational store is the only state.  Every function of crud.py is   *)
(* an operator from a store (and its arguments) to an outcome              *)
(* [db, ret, raised]; the actions apply the operators to the store.        *)
(* Prices are integers (units of 0.50), NULL / Python None is 0.           *)
(***************************************************************************)
EXTENDS Integers, FiniteSets, Sequences, TLC

VARIABLES db, last

vars == <<db, last>>

----------------------------------------------------------------------------
(* Bounds of the model *)

(* the store holds at most MaxStoreSize rows (orders, pizzas, beverage rows) *)
MaxStoreSize == 4

None == 0

(* the UUIDs a new row can get *)
OrderIds == {1, 2}
PizzaIds == {1, 2}
RowIds == {1, 2}

UserIds == {1}
AddressData == {1}
PizzaTypeIds == {1, 2}
BeverageIds == {1, 2}
Quantities == {1, 3}

OrderStatus == {"TRANSMITTED", "COMPLETED"}

(* status=None of get_all_orders *)
NoStatus == "None"

OrderCreateSchema == [user_id : UserIds, address : AddressData]
OrderBeverageQuantityCreateSchema == [beverage_id : BeverageIds, quantity : Quantities]

(* The catalogs, read-only for this service: id -> price *)
PizzaTypeCatalog == (1 :> 16) @@ (2 :> 20)
BeverageCatalog == (1 :> 5) @@ (2 :> 2)

----------------------------------------------------------------------------
(* Helpers of the store *)

Remove(f, k) == [x \in DOMAIN f \ {k} |-> f[x]]

Insert(f, k, v) == [x \in DOMAIN f \cup {k} |-> IF x = k THEN v ELSE f[x]]

(* Query.first() of a query without ORDER BY: any matching row, None if none *)
First(S) == IF S = {} THEN {None} ELSE S

RECURSIVE Sum(_, _)
Sum(f, S) == IF S = {} THEN 0
             ELSE LET x == CHOOSE y \in S : TRUE IN f[x] + Sum(f, S \ {x})

Outcome(d, r, x) == [db |-> d, ret |-> r, raised |-> x]

(* number of rows the store holds, for the bound on the store *)
StoreSize(d) ==
    Cardinality(DOMAIN d.order) + Cardinality(DOMAIN d.pizza)
        + Cardinality(DOMAIN d.order_beverage_quantity)

(* ON DELETE cascade of an order to its pizzas and beverage rows *)
Cascade(d, order_id) ==
    [d EXCEPT !.order = Remove(@, order_id),
              !.pizza = [p \in {q \in DOMAIN @ : @[q].order_id # order_id} |-> @[p]],
              !.order_beverage_quantity =
                  [r \in {q \in DOMAIN @ : @[q].order_id # order_id} |-> @[r]]]

(* create_address of the sibling module: an Address entity for the data *)
create_address(address) == address

----------------------------------------------------------------------------
(* crud.py *)

(* create_order that never assigns order.address *)
create_order_no_address(d, schema, id) ==
    LET order == [user_id |-> schema.user_id, address_id |-> None,
                  order_status |-> "TRANSMITTED"]
    IN Outcome([d EXCEPT !.order = Insert(@, id, order)], id, FALSE)

create_order(d, schema, id) ==
    LET address == create_address(schema.address)
        order == [user_id |-> schema.user_id, address_id |-> address,
                  order_status |-> "TRANSMITTED"]
    IN Outcome([d EXCEPT !.order = Insert(@, id, order)], id, FALSE)

(* get_order_by_id whose query lost its filter: first() of all orders *)
get_order_by_id_no_filter(d, order_id) ==
    Outcome(d, IF order_id \in DOMAIN d.order THEN order_id
               ELSE IF DOMAIN d.order = {} THEN None
               ELSE CHOOSE o \in DOMAIN d.order : TRUE, FALSE)

get_order_by_id(d, order_id) ==
    Outcome(d, IF order_id \in DOMAIN d.order THEN order_id ELSE None, FALSE)

get_all_orders(d, status) ==
    Outcome(d, IF status # NoStatus
               THEN {o \in DOMAIN d.order : d.order[o].order_status = status}
               ELSE DOMAIN d.order, FALSE)

delete_order_by_id(d, order_id) ==
    LET entity == get_order_by_id(d, order_id).ret
    IN IF entity # None THEN Outcome(Cascade(d, entity), None, FALSE)
       ELSE Outcome(d, None, FALSE)

(* update_order_status that writes the status of every order *)
update_order_status_all_orders(d, order, changed_order) ==
    Outcome([d EXCEPT !.order = [o \in DOMAIN @ |->
                                    [@[o] EXCEPT !.order_status = changed_order]]],
            order, FALSE)

update_order_status(d, order, changed_order) ==
    Outcome([d EXCEPT !.order[order].order_status = changed_order], order, FALSE)

create_pizza(d, pizza_type, id) ==
    LET entity == [order_id |-> None,
                   pizza_type_id |-> IF pizza_type # None THEN pizza_type ELSE None]
        committed == [d EXCEPT !.pizza = Insert(@, id, entity)]
    IN IF pizza_type = None
       THEN Outcome(committed, None, TRUE)
       ELSE Outcome(committed, id, FALSE)

(* add_pizza_to_order that never appends the pizza to order.pizzas *)
add_pizza_to_order_no_append(d, order, pizza_type, id) ==
    create_pizza(d, pizza_type, id)

add_pizza_to_order(d, order, pizza_type, id) ==
    LET created == create_pizza(d, pizza_type, id)
    IN IF created.raised THEN created
       ELSE Outcome([created.db EXCEPT !.pizza[created.ret].order_id = order],
                    created.ret, FALSE)

get_pizza_by_id(d, pizza_id) ==
    Outcome(d, IF pizza_id \in DOMAIN d.pizza THEN pizza_id ELSE None, FALSE)

get_all_pizzas_of_order(d, order) ==
    Outcome(d, {<<p, t, d.pizza_type[t]>> :
                   <<p, t>> \in {x \in (DOMAIN d.pizza) \X (DOMAIN d.pizza_type) :
                                   /\ d.pizza[x[1]].pizza_type_id = x[2]
                                   /\ d.pizza[x[1]].order_id = order}}, FALSE)

(* delete_pizza_from_order that filters on Pizza.id only *)
delete_pizza_from_order_any_order(d, order, pizza_id) ==
    LET entity == IF pizza_id \in DOMAIN d.pizza THEN pizza_id ELSE None
    IN IF entity # None
       THEN Outcome([d EXCEPT !.pizza = Remove(@, entity)], TRUE, FALSE)
       ELSE Outcome(d, FALSE, FALSE)

delete_pizza_from_order(d, order, pizza_id) ==
    LET entity == IF /\ pizza_id \in DOMAIN d.pizza
                     /\ d.pizza[pizza_id].order_id = order
                  THEN pizza_id ELSE None
    IN IF entity # None
       THEN Outcome([d EXCEPT !.pizza = Remove(@, entity)], TRUE, FALSE)
       ELSE Outcome(d, FALSE, FALSE)

create_beverage_quantity(d, order, schema, id) ==
    LET entity == [order_id |-> order, beverage_id |-> schema.beverage_id,
                   quantity |-> schema.quantity]
    IN Outcome([d EXCEPT !.order_beverage_quantity = Insert(@, id, entity)], id, FALSE)

MatchingRows(d, order_id, beverage_id) ==
    {r \in DOMAIN d.order_beverage_quantity :
        /\ d.order_beverage_quantity[r].beverage_id = beverage_id
        /\ d.order_beverage_quantity[r].order_id = order_id}

get_beverage_quantity_by_id(d, order_id, beverage_id) ==
    {Outcome(d, entity, FALSE) : entity \in First(MatchingRows(d, order_id, beverage_id))}

get_joined_beverage_quantities_by_order(d, order_id) ==
    Outcome(d, {r \in DOMAIN d.order_beverage_quantity :
                   d.order_beverage_quantity[r].order_id = order_id}, FALSE)

(* update_beverage_quantity_of_order that filters on the order only *)
update_beverage_quantity_of_order_any_beverage(d, order_id, beverage_id, new_quantity) ==
    {IF order_beverage # None
     THEN Outcome([d EXCEPT !.order_beverage_quantity[order_beverage].quantity =
                                new_quantity], order_beverage, FALSE)
     ELSE Outcome(d, None, FALSE) :
        order_beverage \in First({r \in DOMAIN d.order_beverage_quantity :
                                    d.order_beverage_quantity[r].order_id = order_id})}

update_beverage_quantity_of_order(d, order_id, beverage_id, new_quantity) ==
    {IF order_beverage # None
     THEN Outcome([d EXCEPT !.order_beverage_quantity[order_beverage].quantity =
                                new_quantity], order_beverage, FALSE)
     ELSE Outcome(d, None, FALSE) :
        order_beverage \in First(MatchingRows(d, order_id, beverage_id))}

delete_beverage_from_order(d, order_id, beverage_id) ==
    {IF entity # None
     THEN Outcome([d EXCEPT !.order_beverage_quantity = Remove(@, entity)], TRUE, FALSE)
     ELSE Outcome(d, FALSE, FALSE) :
        entity \in First(MatchingRows(d, order_id, beverage_id))}

(* rows of Beverage JOIN OrderBeverageQuantity JOIN Order WHERE Order.id = order_id *)
BeverageJoin(d, order_id) ==
    {x \in (DOMAIN d.beverage) \X (DOMAIN d.order_beverage_quantity) \X (DOMAIN d.order) :
        /\ d.order_beverage_quantity[x[2]].beverage_id = x[1]
        /\ d.order_beverage_quantity[x[2]].order_id = x[3]
        /\ x[3] = order_id}

(* the pizza join with one row per pizza type, as SELECT DISTINCT would give *)
PizzaJoin_distinct_types(d, order_id) ==
    {x \in (DOMAIN d.pizza_type) \X (DOMAIN d.pizza) \X (DOMAIN d.order) :
        /\ d.pizza[x[2]].pizza_type_id = x[1]
        /\ d.pizza[x[2]].order_id = x[3]
        /\ x[3] = order_id
        /\ \A q \in DOMAIN d.pizza :
              (d.pizza[q].pizza_type_id = x[1] /\ d.pizza[q].order_id = x[3]) => x[2] <= q}

(* rows of PizzaType JOIN Pizza JOIN Order WHERE Order.id = order_id *)
PizzaJoin(d, order_id) ==
    {x \in (DOMAIN d.pizza_type) \X (DOMAIN d.pizza) \X (DOMAIN d.order) :
        /\ d.pizza[x[2]].pizza_type_id = x[1]
        /\ d.pizza[x[2]].order_id = x[3]
        /\ x[3] = order_id}

get_price_of_order(d, order_id) ==
    LET bev == BeverageJoin(d, order_id)
        price_beverage ==
            Sum([x \in bev |-> d.beverage[x[1]] * d.order_beverage_quantity[x[2]].quantity],
                bev)
        piz == PizzaJoin(d, order_id)
        price_pizza == IF piz = {} THEN None
                       ELSE Sum([x \in piz |-> d.pizza_type[x[1]]], piz)
    IN IF piz = {} THEN Outcome(d, price_beverage, FALSE)
       ELSE Outcome(d, price_pizza + price_beverage, FALSE)

----------------------------------------------------------------------------
(* The state machine *)

Call(op, args, out) ==
    /\ db' = out.db
    /\ last' = [op |-> op, args |-> args, ret |-> out.ret, raised |-> out.raised]

Init ==
    /\ db = [order |-> <<>>, pizza |-> <<>>, order_beverage_quantity |-> <<>>,
             pizza_type |-> PizzaTypeCatalog, beverage |-> BeverageCatalog]
    /\ last = [op |-> "init", args |-> <<>>, ret |-> None, raised |-> FALSE]

CreateOrder ==
    /\ StoreSize(db) < MaxStoreSize
    /\ \E schema \in OrderCreateSchema, id \in OrderIds \ DOMAIN db.order :
        Call("create_order", <<schema>>, create_order(db, schema, id))

GetOrderById ==
    \E order_id \in OrderIds :
        Call("get_order_by_id", <<order_id>>, get_order_by_id(db, order_id))

GetAllOrders ==
    \E status \in OrderStatus \cup {NoStatus} :
        Call("get_all_orders", <<status>>, get_all_orders(db, status))

DeleteOrderById ==
    \E order_id \in OrderIds :
        Call("delete_order_by_id", <<order_id>>, delete_order_by_id(db, order_id))

UpdateOrderStatus ==
    \E order \in DOMAIN db.order, changed_order \in OrderStatus :
        Call("update_order_status", <<order, changed_order>>,
             update_order_status(db, order, changed_order))

CreatePizza ==
    /\ StoreSize(db) < MaxStoreSize
    /\ \E pizza_type \in PizzaTypeIds \cup {None}, id \in PizzaIds \ DOMAIN db.pizza :
        Call("create_pizza", <<pizza_type>>, create_pizza(db, pizza_type, id))

AddPizzaToOrder ==
    /\ StoreSize(db) < MaxStoreSize
    /\ \E order \in DOMAIN db.order, pizza_type \in PizzaTypeIds \cup {None},
       id \in PizzaIds \ DOMAIN db.pizza :
        Call("add_pizza_to_order", <<order, pizza_type>>,
             add_pizza_to_order(db, order, pizza_type, id))

GetPizzaById ==
    \E pizza_id \in PizzaIds :
        Call("get_pizza_by_id", <<pizza_id>>, get_pizza_by_id(db, pizza_id))

GetAllPizzasOfOrder ==
    \E order \in DOMAIN db.order :
        Call("get_all_pizzas_of_order", <<order>>, get_all_pizzas_of_order(db, order))

DeletePizzaFromOrder ==
    \E order \in DOMAIN db.order, pizza_id \in PizzaIds :
        Call("delete_pizza_from_order", <<order, pizza_id>>,
             delete_pizza_from_order(db, order, pizza_id))

CreateBeverageQuantity ==
    /\ StoreSize(db) < MaxStoreSize
    /\ \E order \in DOMAIN db.order, schema \in OrderBeverageQuantityCreateSchema,
       id \in RowIds \ DOMAIN db.order_beverage_quantity :
        Call("create_beverage_quantity", <<order, schema>>,
             create_beverage_quantity(db, order, schema, id))

GetBeverageQuantityById ==
    \E order_id \in OrderIds, beverage_id \in BeverageIds :
        \E out \in get_beverage_quantity_by_id(db, order_id, beverage_id) :
            Call("get_beverage_quantity_by_id", <<order_id, beverage_id>>, out)

GetJoinedBeverageQuantitiesByOrder ==
    \E order_id \in OrderIds :
        Call("get_joined_beverage_quantities_by_order", <<order_id>>,
             get_joined_beverage_quantities_by_order(db, order_id))

UpdateBeverageQuantityOfOrder ==
    \E order_id \in OrderIds, beverage_id \in BeverageIds, new_quantity \in Quantities :
        \E out \in update_beverage_quantity_of_order(db, order_id, beverage_id, new_quantity) :
            Call("update_beverage_quantity_of_order",
                 <<order_id, beverage_id, new_quantity>>, out)

DeleteBeverageFromOrder ==
    \E order_id \in OrderIds, beverage_id \in BeverageIds :
        \E out \in delete_beverage_from_order(db, order_id, beverage_id) :
            Call("delete_beverage_from_order", <<order_id, beverage_id>>, out)

GetPriceOfOrder ==
    \E order_id \in OrderIds :
        Call("get_price_of_order", <<order_id>>, get_price_of_order(db, order_id))

Next ==
    \/ CreateOrder
    \/ GetOrderById
    \/ GetAllOrders
    \/ DeleteOrderById
    \/ UpdateOrderStatus
    \/ CreatePizza
    \/ AddPizzaToOrder
    \/ GetPizzaById
    \/ GetAllPizzasOfOrder
    \/ DeletePizzaFromOrder
    \/ CreateBeverageQuantity
    \/ GetBeverageQuantityById
    \/ GetJoinedBeverageQuantitiesByOrder
    \/ UpdateBeverageQuantityOfOrder
    \/ DeleteBeverageFromOrder
    \/ GetPriceOfOrder

Spec == Init /\ [][Next]_vars

----------------------------------------------------------------------------
(* Properties *)

RowsOfOrder(d, order_id) ==
    {r \in DOMAIN d.order_beverage_quantity :
        d.order_beverage_quantity[r].order_id = order_id}

PizzasOfOrder(d, order_id) ==
    {p \in DOMAIN d.pizza : d.pizza[p].order_id = order_id}

PizzaCount(d, order_id) == Cardinality(PizzasOfOrder(d, order_id))

(* the price the beverage rows of an order add up to *)
BeverageTotal(d, order_id) ==
    Sum([r \in RowsOfOrder(d, order_id) |->
            d.beverage[d.order_beverage_quantity[r].beverage_id]
                * d.order_beverage_quantity[r].quantity],
        RowsOfOrder(d, order_id))

(* the price the line items of an order add up to *)
LineItemTotal(d, order_id) ==
    BeverageTotal(d, order_id)
    + Sum([p \in PizzasOfOrder(d, order_id) |->
              IF d.pizza[p].pizza_type_id = None THEN 0
              ELSE d.pizza_type[d.pizza[p].pizza_type_id]],
          PizzasOfOrder(d, order_id))

(* C1: for every order id and every reachable store, get_price_of_order
   returns the sum of beverage.price * quantity over the beverage rows of the
   order plus the sum of pizza_type.price over its pizza rows, each pizza row
   counted once; with no pizzas it is the beverage sum; rows of other orders
   contribute nothing. *)
C1_PriceIsSumOfLineItems ==
    \A order_id \in OrderIds :
        LET out == get_price_of_order(db, order_id)
        IN /\ ~out.raised
           /\ out.db = db
           /\ out.ret = LineItemTotal(db, order_id)
           /\ PizzasOfOrder(db, order_id) = {} => out.ret = BeverageTotal(db, order_id)

(* C1 witness: the price of an order with two pizzas of one type and a
   beverage row has been computed *)
C1_Witness ==
    /\ last.op = "get_price_of_order"
    /\ \E p, q \in PizzasOfOrder(db, last.args[1]) :
          p # q /\ db.pizza[p].pizza_type_id = db.pizza[q].pizza_type_id
    /\ RowsOfOrder(db, last.args[1]) # {}
    /\ last.ret = LineItemTotal(db, last.args[1])
    /\ last.ret > BeverageTotal(db, last.args[1])

(* C2: every create_order call returns an order that is in the store with
   status TRANSMITTED and a non-null address reference. *)
C2_CreatedOrderTransmitted ==
    /\ \A schema \in OrderCreateSchema, id \in OrderIds \ DOMAIN db.order :
          LET out == create_order(db, schema, id)
          IN /\ ~out.raised
             /\ out.ret \in DOMAIN out.db.order
             /\ out.db.order[out.ret].order_status = "TRANSMITTED"
             /\ out.db.order[out.ret].address_id # None
    /\ last.op = "create_order" =>
          /\ last.ret \in DOMAIN db.order
          /\ db.order[last.ret].order_status = "TRANSMITTED"
          /\ db.order[last.ret].address_id # None

(* C2 witness: create_order has returned while another stored order has
   moved on to another status *)
C2_Witness ==
    /\ last.op = "create_order"
    /\ \E o \in DOMAIN db.order : o # last.ret /\ db.order[o].order_status = "COMPLETED"

(* C3: for every stored order and every non-null pizza type,
   add_pizza_to_order increases the pizza count of the order by exactly one,
   the returned pizza belongs to the order and references the pizza type, and
   the pizza counts of all other orders are unchanged. *)
C3_AddPizzaCountsOne ==
    \A order \in DOMAIN db.order, pizza_type \in PizzaTypeIds,
       id \in PizzaIds \ DOMAIN db.pizza :
        LET out == add_pizza_to_order(db, order, pizza_type, id)
        IN /\ ~out.raised
           /\ PizzaCount(out.db, order) = PizzaCount(db, order) + 1
           /\ out.ret \in DOMAIN out.db.pizza
           /\ out.db.pizza[out.ret].order_id = order
           /\ out.db.pizza[out.ret].pizza_type_id = pizza_type
           /\ \A other \in OrderIds \ {order} :
                 PizzaCount(out.db, other) = PizzaCount(db, other)

(* C3 witness: add_pizza_to_order has returned a pizza of an order while
   another order holds a pizza of its own *)
C3_Witness ==
    /\ last.op = "add_pizza_to_order"
    /\ ~last.raised
    /\ db.pizza[last.ret].order_id = last.args[1]
    /\ \E other \in DOMAIN db.order \ {last.args[1]} : PizzaCount(db, other) = 1

(* C4: delete_pizza_from_order with the id of a pizza that exists but belongs
   to another order returns False and leaves the pizzas unchanged; it returns
   True, and removes exactly that pizza, only when the pizza belongs to the
   given order. *)
C4_DeletePizzaOnlyOfOrder ==
    \A order \in DOMAIN db.order, pizza_id \in PizzaIds :
        LET out == delete_pizza_from_order(db, order, pizza_id)
            belongs == pizza_id \in DOMAIN db.pizza /\ db.pizza[pizza_id].order_id = order
        IN /\ ~out.raised
           /\ out.ret = belongs
           /\ ~belongs => out.db = db
           /\ belongs =>
                 /\ DOMAIN out.db.pizza = DOMAIN db.pizza \ {pizza_id}
                 /\ \A q \in DOMAIN out.db.pizza : out.db.pizza[q] = db.pizza[q]
                 /\ out.db.order = db.order
                 /\ out.db.order_beverage_quantity = db.order_beverage_quantity

(* C4 witness: delete_pizza_from_order has returned False for a stored pizza
   that belongs to another stored order *)
C4_Witness ==
    /\ last.op = "delete_pizza_from_order"
    /\ last.ret = FALSE
    /\ last.args[2] \in DOMAIN db.pizza
    /\ db.pizza[last.args[2]].order_id \in DOMAIN db.order \ {last.args[1]}

(* C5: update_beverage_quantity_of_order for a pair without a row returns
   null and changes nothing; when a row exists, exactly one row of that pair
   gets new_quantity and every other row, and every other field, is kept. *)
C5_UpdateQuantityFrame ==
    \A order_id \in OrderIds, beverage_id \in BeverageIds, new_quantity \in Quantities :
        \A out \in update_beverage_quantity_of_order(db, order_id, beverage_id, new_quantity) :
            LET rows == db.order_beverage_quantity
                found == {r \in DOMAIN rows : /\ rows[r].order_id = order_id
                                              /\ rows[r].beverage_id = beverage_id}
            IN /\ ~out.raised
               /\ found = {} => out.ret = None /\ out.db = db
               /\ found # {} =>
                     /\ out.ret \in found
                     /\ DOMAIN out.db.order_beverage_quantity = DOMAIN rows
                     /\ out.db.order_beverage_quantity[out.ret] =
                            [order_id |-> order_id, beverage_id |-> beverage_id,
                             quantity |-> new_quantity]
                     /\ \A r \in DOMAIN rows \ {out.ret} :
                           out.db.order_beverage_quantity[r] = rows[r]
                     /\ out.db.order = db.order
                     /\ out.db.pizza = db.pizza

(* C5 witness: update_beverage_quantity_of_order has overwritten one row
   while a second row of the same (order, beverage) pair keeps a different
   quantity *)
C5_Witness ==
    /\ last.op = "update_beverage_quantity_of_order"
    /\ last.ret # None
    /\ db.order_beverage_quantity[last.ret].quantity = last.args[3]
    /\ \E r \in DOMAIN db.order_beverage_quantity \ {last.ret} :
          /\ db.order_beverage_quantity[r].order_id = last.args[1]
          /\ db.order_beverage_quantity[r].beverage_id = last.args[2]
          /\ db.order_beverage_quantity[r].quantity # last.args[3]

(* C6: for an order id that is not in the store get_order_by_id returns
   empty and delete_order_by_id changes nothing, neither raises; deleting an
   id twice leaves the store as deleting it once. *)
C6_MissingOrderNoOp ==
    /\ \A order_id \in OrderIds \ DOMAIN db.order :
          /\ get_order_by_id(db, order_id) = Outcome(db, None, FALSE)
          /\ delete_order_by_id(db, order_id) = Outcome(db, None, FALSE)
    /\ \A order_id \in OrderIds :
          LET once == delete_order_by_id(db, order_id)
              twice == delete_order_by_id(once.db, order_id)
          IN ~once.raised /\ ~twice.raised /\ twice.db = once.db

(* C6 witness: delete_order_by_id has returned, its id is missing from the
   store, where a second call is a no-op, and another order with a pizza and
   a beverage row is stored *)
C6_Witness ==
    /\ last.op = "delete_order_by_id"
    /\ last.args[1] \notin DOMAIN db.order
    /\ \E o \in DOMAIN db.order : PizzasOfOrder(db, o) # {} /\ RowsOfOrder(db, o) # {}

(* C7: in every committed store state every pizza row belongs to exactly one
   stored order and references exactly one pizza type. *)
C7_PizzaHasOrderAndType ==
    \A p \in DOMAIN db.pizza :
        /\ db.pizza[p].order_id \in DOMAIN db.order
        /\ db.pizza[p].pizza_type_id \in DOMAIN db.pizza_type

(* C8: there is at most one OrderBeverageQuantity row per (order, beverage)
   pair, and after delete_beverage_from_order returned True no row of the
   pair is left. *)
C8_UniqueBeveragePair ==
    /\ \A r, q \in DOMAIN db.order_beverage_quantity :
          (/\ db.order_beverage_quantity[r].order_id = db.order_beverage_quantity[q].order_id
           /\ db.order_beverage_quantity[r].beverage_id =
                  db.order_beverage_quantity[q].beverage_id) => r = q
    /\ (last.op = "delete_beverage_from_order" /\ last.ret = TRUE) =>
          \A out \in get_beverage_quantity_by_id(db, last.args[1], last.args[2]) :
              out.ret = None

(* C9: create_pizza with a null pizza type completes without raising and
   returns a stored pizza whose pizza type reference is unset. *)
C9_CreatePizzaToleratesNull ==
    (last.op = "create_pizza" /\ last.args[1] = None) =>
        /\ ~last.raised
        /\ last.ret \in DOMAIN db.pizza
        /\ db.pizza[last.ret].pizza_type_id = None

(* C10: the status of an order is TRANSMITTED when create_order stores it and
   changes afterwards only by update_order_status on that order, which sets
   whatever status it is given; no other operation changes a status. *)
C10_StatusChangesOnlyByUpdate ==
    [][\A o \in OrderIds :
          /\ (o \notin DOMAIN db.order /\ o \in DOMAIN db'.order) =>
                /\ last'.op = "create_order"
                /\ last'.ret = o
                /\ db'.order[o].order_status = "TRANSMITTED"
          /\ (/\ o \in DOMAIN db.order
              /\ o \in DOMAIN db'.order
              /\ db'.order[o].order_status # db.order[o].order_status) =>
                /\ last'.op = "update_order_status"
                /\ last'.args[1] = o
          /\ (last'.op = "update_order_status" /\ last'.args[1] = o) =>
                /\ o \in DOMAIN db'.order
                /\ db'.order[o].order_status = last'.args[2]
      ]_vars

(* C10 witness: update_order_status has set an order back to TRANSMITTED
   while another order with a pizza and a beverage row is COMPLETED *)
C10_Witness ==
    /\ last.op = "update_order_status"
    /\ last.args[2] = "TRANSMITTED"
    /\ db.order[last.args[1]].order_status = "TRANSMITTED"
    /\ \E o \in DOMAIN db.order \ {last.args[1]} :
          /\ db.order[o].order_status = "COMPLETED"
          /\ PizzasOfOrder(db, o) # {}
          /\ RowsOfOrder(db, o) # {}

====
